---- MODULE Spec2Model ----
(***************************************************************************)
(* Model of the two scripts of the repository:                             *)
(*   composer/cicd_sample/utils/add_dags_to_composer.py  (DAG publisher)   *)
(*   run/filesystem/e2e_test.py  (deployment test and gcloud_cli helper)   *)
(* Strings are sequences of one-character strings, so that pattern         *)
(* matching, prefix removal and date formatting are computed, not assumed. *)
(***************************************************************************)
EXTENDS Integers, Sequences, FiniteSets, TLC

VARIABLES
    srcTree,    \* content of dags_directory: set of [path, kind]
    ppc,        \* position of upload_dags_to_composer
    temp_dir,   \* path returned by tempfile.mkdtemp()
    staged,     \* content of the staging directory after copytree
    dags,       \* list returned by glob.glob (absolute staging paths)
    uploaded,   \* keys written to the bucket by this run, in order
    idx,        \* number of loop iterations of "for dag in dags" started
    bucket,     \* set of [key, content] objects in the bucket
    pubError,   \* TRUE when an upload exception reached the caller
    tpc,        \* position of the pytest run of test_end_to_end
    log,        \* commands and requests issued so far, in order
    service_url,\* value yielded by service_url_auth_token
    auth_token, \* value yielded by service_url_auth_token
    rootStatus, \* status of the response to the root GET
    mntStatus,  \* status of the response to the mounted-path GET
    body,       \* response.read() of the mounted-path GET
    date,       \* datetime.datetime.utcnow() taken by the test
    outcome,    \* pytest's verdict for test_end_to_end
    gpc,        \* position of one call of the wrapped gcloud_cli
    attempts,   \* what each subprocess.run of that call produced
    tries,      \* backoff's try counter
    gRet,       \* value returned to the caller of gcloud_cli
    gExc        \* exception raised to the caller of gcloud_cli

pubVars == <<srcTree, ppc, temp_dir, staged, dags, uploaded, idx, bucket, pubError>>

verVars == <<tpc, log, service_url, auth_token, rootStatus, mntStatus, body, date, outcome>>

cliVars == <<gpc, attempts, tries, gRet, gExc>>

vars == <<pubVars, verVars, cliVars>>

\* ---------------------------------------------------------------- bounds

MaxEntries == 4
MaxDepth == 2

\* ---------------------------------------------------------------- strings

SLASH == "/"

N_a_py == <<"a", ".", "p", "y">>
N_d_py == <<"d", ".", "p", "y">>
N_init == <<"_", "_", "i", "n", "i", "t", "_", "_", ".", "p", "y">>
N_b_test == <<"b", "_", "t", "e", "s", "t", ".", "p", "y">>
N_test == <<"_", "t", "e", "s", "t", ".", "p", "y">>
N_testpy == <<"t", "e", "s", "t", ".", "p", "y">>
N_txt == <<"x", ".", "t", "x", "t">>
N_hidden == <<".", "h", ".", "p", "y">>
N_sub == <<"s", "u", "b">>

FileNames == {N_a_py, N_testpy, N_init, N_b_test, N_test, N_txt, N_hidden}
DirNames == {N_sub, N_d_py, N_b_test}

TempDirs == { <<"/", "t", "/", "k">>, <<"/", "t", "/", "t">> }

RECURSIVE Fnmatch(_, _)
Fnmatch(name, pat) ==
    IF pat = <<>> THEN name = <<>>
    ELSE IF Head(pat) = "*"
         THEN Fnmatch(name, Tail(pat))
              \/ (name # <<>> /\ Fnmatch(Tail(name), pat))
         ELSE name # <<>> /\ Head(name) = Head(pat)
              /\ Fnmatch(Tail(name), Tail(pat))

IsPrefix(p, s) == Len(p) <= Len(s) /\ SubSeq(s, 1, Len(p)) = p

RECURSIVE StrReplace(_, _, _)
StrReplace(s, old, new) ==
    IF s = <<>> THEN <<>>
    ELSE IF IsPrefix(old, s)
         THEN new \o StrReplace(SubSeq(s, Len(old) + 1, Len(s)), old, new)
         ELSE <<Head(s)>> \o StrReplace(Tail(s), old, new)

\* ---------------------------------------------------------------- publisher

PAT_INIT == N_init
PAT_TEST == <<"*">> \o N_test
PAT_PY == <<"*", ".", "p", "y">>

\* The test pattern written without its wildcard.
files_to_ignore_NoStar(name) == Fnmatch(name, PAT_INIT) \/ Fnmatch(name, N_test)

files_to_ignore(name) == Fnmatch(name, PAT_INIT) \/ Fnmatch(name, PAT_TEST)

copytree(tree) ==
    {e \in tree : \A i \in 1..Len(e.path) : ~files_to_ignore(e.path[i])}

ishidden(name) == name # <<>> /\ Head(name) = "."

\* A listing that walks the whole staging tree and keeps every extension.
GlobNames_Recursive(tree) == {e.path[Len(e.path)] : e \in {x \in tree : x.kind = "file"}}

GlobNames(tree) ==
    {e.path[1] : e \in {x \in tree : Len(x.path) = 1
                                     /\ ~ishidden(x.path[1])
                                     /\ Fnmatch(x.path[1], PAT_PY)}}

Orderings(S) ==
    {s \in [1..Cardinality(S) -> S] : \A i, j \in DOMAIN s : i # j => s[i] # s[j]}

JoinDir(dir, name) == dir \o <<SLASH>> \o name

\* The prefix removed without its trailing separator.
ObjectKey_NoSlash(dag, tdir) == StrReplace(dag, tdir, <<>>)

ObjectKey(dag, tdir) == StrReplace(dag, tdir \o <<SLASH>>, <<>>)

PubInit ==
    /\ srcTree = {}
    /\ ppc = "setup"
    /\ temp_dir = <<>>
    /\ staged = {}
    /\ dags = <<>>
    /\ uploaded = <<>>
    /\ idx = 0
    /\ bucket = {}
    /\ pubError = FALSE

\* The content of dags_directory before the script runs.
AddEntry ==
    /\ ppc = "setup"
    /\ Cardinality(srcTree) < MaxEntries
    /\ \E parent \in {<<>>} \cup {d.path : d \in {x \in srcTree : x.kind = "dir"}} :
       \E kind \in {"file", "dir"} :
       \E name \in (IF kind = "file" THEN FileNames ELSE DirNames) :
          /\ Len(parent) < MaxDepth
          /\ \A e \in srcTree : e.path # Append(parent, name)
          /\ srcTree' = srcTree \cup {[path |-> Append(parent, name), kind |-> kind]}
    /\ UNCHANGED <<ppc, temp_dir, staged, dags, uploaded, idx, bucket, pubError>>
    /\ UNCHANGED <<verVars, cliVars>>

create_dags_list ==
    /\ ppc = "setup"
    /\ \E t \in TempDirs :
       /\ temp_dir' = t
       /\ staged' = copytree(srcTree)
       /\ \E order \in Orderings(GlobNames(copytree(srcTree))) :
             dags' = [i \in DOMAIN order |-> JoinDir(t, order[i])]
    /\ ppc' = "upload"
    /\ UNCHANGED <<srcTree, uploaded, idx, bucket, pubError>>
    /\ UNCHANGED <<verVars, cliVars>>

Put(b, key, content) == {o \in b : o.key # key} \cup {[key |-> key, content |-> content]}

\* One iteration of the loop whose blob.upload_from_string(dag) returns.
UploadOk ==
    /\ ppc = "upload"
    /\ idx < Len(dags)
    /\ LET dag == ObjectKey(dags[idx + 1], temp_dir)
       IN /\ bucket' = Put(bucket, dag, dag)
          /\ uploaded' = Append(uploaded, dag)
    /\ idx' = idx + 1
    /\ UNCHANGED <<srcTree, ppc, temp_dir, staged, dags, pubError>>
    /\ UNCHANGED <<verVars, cliVars>>

\* The exception swallowed inside the loop, which then goes on.
UploadFail_Swallowed ==
    /\ ppc = "upload"
    /\ idx < Len(dags)
    /\ idx' = idx + 1
    /\ pubError' = TRUE
    /\ UNCHANGED <<srcTree, ppc, temp_dir, staged, dags, uploaded, bucket>>
    /\ UNCHANGED <<verVars, cliVars>>

\* One iteration whose upload raises: nothing catches it, the loop is left.
UploadFail ==
    /\ ppc = "upload"
    /\ idx < Len(dags)
    /\ idx' = idx + 1
    /\ ppc' = "failed"
    /\ pubError' = TRUE
    /\ UNCHANGED <<srcTree, temp_dir, staged, dags, uploaded, bucket>>
    /\ UNCHANGED <<verVars, cliVars>>

UploadsDone ==
    /\ ppc = "upload"
    /\ idx = Len(dags)
    /\ ppc' = "done"
    /\ UNCHANGED <<srcTree, temp_dir, staged, dags, uploaded, idx, bucket, pubError>>
    /\ UNCHANGED <<verVars, cliVars>>

\* ---------------------------------------------------------------- deployment test

None == "none"

\* Values of the test's locals before they are assigned.
NoStatus == 0 - 1
NoBody == [decodable |-> FALSE, text |-> <<None>>]
NoDate == [a |-> None, b |-> None, d |-> 0, H |-> 0]

Statuses == {200, 204, 404, 500}

Urls == {"https://svc-1.run.app", "https://svc-2.run.app"}
Tokens == {"tok-1", "tok-2"}

Weekdays == {"Mon", "Tue"}
Months == {"Nov"}
Days == {2, 13}
Hours == {9, 12}

Dates == [a : Weekdays, b : Months, d : Days, H : Hours]

Digit(n) == <<"0", "1", "2", "3", "4", "5", "6", "7", "8", "9">>[n + 1]

\* %d and %H: two digits, zero padded.
TwoDigits(n) == <<Digit(n \div 10), Digit(n % 10)>>

\* A number printed without padding.
Plain(n) == IF n < 10 THEN <<Digit(n)>> ELSE TwoDigits(n)

\* '{dt:%a}-{dt:%b}-{dt:%d}-{dt:%H}'.format(dt=date)
DateToken(dt) ==
    <<dt.a, "-", dt.b, "-">> \o TwoDigits(dt.d) \o <<"-">> \o TwoDigits(dt.H)

Contains(s, t) == \E i \in 0..(Len(s) - Len(t)) : SubSeq(s, i + 1, i + Len(t)) = t

\* What the service may answer on the mounted path: bytes that do not decode,
\* an empty listing, a file named after the server's date (padded as the test
\* expects, or not).
Bodies ==
    {[decodable |-> FALSE, text |-> <<>>], [decodable |-> TRUE, text |-> <<>>]}
    \cup {[decodable |-> TRUE, text |-> <<"t", "e", "s", "t", "-">> \o DateToken(d)
                                          \o <<".", "t", "x", "t">>] : d \in Dates}
    \cup {[decodable |-> TRUE,
           text |-> <<d.a, "-", d.b, "-">> \o Plain(d.d) \o <<"-">> \o Plain(d.H)] :
          d \in Dates}

Cmd(c, ok) == [cmd |-> c, ok |-> ok]

\* request.urlopen raises HTTPError for an error status, else returns the response.
UrlopenRaises(status) == status >= 400

\* The first assert statement dropped.
RootAssert_Dropped(status) == TRUE

RootAssert(status) == status = 200

\* The second assert statement dropped.
MntAssert_Dropped(status) == TRUE

MntAssert(status) == status = 200

BodyAssert(b, dt) == Contains(b.text, DateToken(dt))

VerInit ==
    /\ tpc = "start"
    /\ log = <<>>
    /\ service_url = None
    /\ auth_token = None
    /\ rootStatus = NoStatus
    /\ mntStatus = NoStatus
    /\ body = NoBody
    /\ date = NoDate
    /\ outcome = None

\* deployed_service up to its yield: gcloud builds submit returned 0.
BuildOk ==
    /\ tpc = "start"
    /\ log' = Append(log, Cmd("builds submit", TRUE))
    /\ tpc' = "built"
    /\ UNCHANGED <<service_url, auth_token, rootStatus, mntStatus, body, date, outcome>>
    /\ UNCHANGED <<pubVars, cliVars>>

\* The build wrapped so that the service is deleted when it fails.
BuildFail_Finally ==
    /\ tpc = "start"
    /\ log' = Append(log, Cmd("builds submit", FALSE))
    /\ outcome' = "error"
    /\ tpc' = "teardown"
    /\ UNCHANGED <<service_url, auth_token, rootStatus, mntStatus, body, date>>
    /\ UNCHANGED <<pubVars, cliVars>>

\* check_call raises before the yield: the fixture has no teardown to run.
BuildFail ==
    /\ tpc = "start"
    /\ log' = Append(log, Cmd("builds submit", FALSE))
    /\ outcome' = "error"
    /\ tpc' = "finished"
    /\ UNCHANGED <<service_url, auth_token, rootStatus, mntStatus, body, date>>
    /\ UNCHANGED <<pubVars, cliVars>>

\* service_url_auth_token: gcloud run services describe.
Describe ==
    /\ tpc = "built"
    /\ \E ok \in BOOLEAN :
       /\ log' = Append(log, Cmd("services describe", ok))
       /\ IF ok
          THEN /\ \E u \in Urls : service_url' = u
               /\ tpc' = "described"
               /\ UNCHANGED outcome
          ELSE /\ outcome' = "error"
               /\ tpc' = "teardown"
               /\ UNCHANGED service_url
    /\ UNCHANGED <<auth_token, rootStatus, mntStatus, body, date>>
    /\ UNCHANGED <<pubVars, cliVars>>

\* service_url_auth_token: gcloud auth print-identity-token, then the yield.
IdentityToken ==
    /\ tpc = "described"
    /\ \E ok \in BOOLEAN :
       /\ log' = Append(log, Cmd("print-identity-token", ok))
       /\ IF ok
          THEN /\ \E t \in Tokens : auth_token' = t
               /\ tpc' = "resolved"
               /\ UNCHANGED outcome
          ELSE /\ outcome' = "error"
               /\ tpc' = "teardown"
               /\ UNCHANGED auth_token
    /\ UNCHANGED <<service_url, rootStatus, mntStatus, body, date>>
    /\ UNCHANGED <<pubVars, cliVars>>

Get(path, status) ==
    [cmd |-> "GET", url |-> service_url, path |-> path, bearer |-> auth_token,
     ok |-> ~UrlopenRaises(status), status |-> status]

\* test_end_to_end: the request to service_url and its assert.
GetRoot ==
    /\ tpc = "resolved"
    /\ \E st \in Statuses :
       /\ log' = Append(log, Get("", st))
       /\ rootStatus' = st
       /\ IF ~UrlopenRaises(st) /\ RootAssert(st)
          THEN tpc' = "root_ok" /\ UNCHANGED outcome
          ELSE tpc' = "teardown" /\ outcome' = "failed"
    /\ UNCHANGED <<service_url, auth_token, mntStatus, body, date>>
    /\ UNCHANGED <<pubVars, cliVars>>

\* test_end_to_end: the request to the mounted path and its assert.
GetMnt ==
    /\ tpc = "root_ok"
    /\ \E st \in Statuses :
       /\ log' = Append(log, Get("/mnt/nfs/filestore", st))
       /\ mntStatus' = st
       /\ IF ~UrlopenRaises(st) /\ MntAssert(st)
          THEN tpc' = "mnt_ok" /\ UNCHANGED outcome
          ELSE tpc' = "teardown" /\ outcome' = "failed"
    /\ UNCHANGED <<service_url, auth_token, rootStatus, body, date>>
    /\ UNCHANGED <<pubVars, cliVars>>

\* test_end_to_end: utcnow, read, decode and the last assert.
CheckBody ==
    /\ tpc = "mnt_ok"
    /\ \E dt \in Dates, b \in Bodies :
       /\ date' = dt
       /\ body' = b
       /\ outcome' = IF b.decodable /\ BodyAssert(b, dt) THEN "passed" ELSE "failed"
    /\ tpc' = "teardown"
    /\ UNCHANGED <<log, service_url, auth_token, rootStatus, mntStatus>>
    /\ UNCHANGED <<pubVars, cliVars>>

\* The delete placed at the end of the test body instead of after the yield.
Teardown_InTestBody ==
    /\ tpc = "teardown"
    /\ \E ok \in BOOLEAN :
          log' = IF outcome = "passed"
                 THEN Append(log, Cmd("services delete", ok)) ELSE log
    /\ tpc' = "finished"
    /\ UNCHANGED <<service_url, auth_token, rootStatus, mntStatus, body, date, outcome>>
    /\ UNCHANGED <<pubVars, cliVars>>

\* deployed_service after its yield, run by pytest once the test has a verdict.
Teardown ==
    /\ tpc = "teardown"
    /\ \E ok \in BOOLEAN : log' = Append(log, Cmd("services delete", ok))
    /\ tpc' = "finished"
    /\ UNCHANGED <<service_url, auth_token, rootStatus, mntStatus, body, date, outcome>>
    /\ UNCHANGED <<pubVars, cliVars>>

\* ---------------------------------------------------------------- gcloud_cli

max_tries == 3

\* Nothing returned, nothing raised yet.
NoValue == [set |-> FALSE, value |-> <<>>]
NoExc == [type |-> None, stderr |-> None]

JsonImported == FALSE

Stdouts == { <<"[", "]">>, <<"[", "1", "]">>, <<"E", "R", "R">> }
Stderrs == {"", "warn", "boom"}

IsJson(s) == Len(s) >= 2 /\ s[1] = "[" /\ s[Len(s)] = "]"

\* json.loads: the name json is not bound in the module.
json_loads(s) ==
    IF ~JsonImported THEN [ok |-> FALSE, error |-> "NameError"]
    ELSE IF IsJson(s) THEN [ok |-> TRUE, value |-> SubSeq(s, 2, Len(s) - 1)]
         ELSE [ok |-> FALSE, error |-> "JSONDecodeError"]

\* subprocess.run without capture_output: the error has no stderr.
gcloud_cli_body_NoCapture(out) ==
    IF out.rc # 0
    THEN [raises |-> TRUE, exc |-> [type |-> "CalledProcessError", stderr |-> None]]
    ELSE [raises |-> TRUE, exc |-> [type |-> "Exception", stderr |-> None]]

\* One execution of the function body on what the gcloud process produced.
gcloud_cli_body(out) ==
    IF out.rc # 0
    THEN [raises |-> TRUE, exc |-> [type |-> "CalledProcessError", stderr |-> out.stderr]]
    ELSE IF json_loads(out.stdout).ok
         THEN [raises |-> FALSE, value |-> json_loads(out.stdout).value]
         ELSE [raises |-> TRUE, exc |-> [type |-> "Exception", stderr |-> out.stderr]]

CliInit ==
    /\ gpc = "call"
    /\ attempts = <<>>
    /\ tries = 0
    /\ gRet = NoValue
    /\ gExc = NoExc

\* One try of backoff.on_exception around the body.
gcloud_cli_try ==
    /\ gpc = "call"
    /\ \E out \in [rc : {0, 1}, stdout : Stdouts, stderr : Stderrs] :
       LET r == gcloud_cli_body(out)
       IN /\ attempts' = Append(attempts, out)
          /\ tries' = tries + 1
          /\ IF ~r.raises
             THEN gpc' = "returned" /\ gRet' = [set |-> TRUE, value |-> r.value] /\ UNCHANGED gExc
             ELSE IF tries + 1 = max_tries
                  THEN gpc' = "raised" /\ gExc' = r.exc /\ UNCHANGED gRet
                  ELSE UNCHANGED <<gpc, gRet, gExc>>
    /\ UNCHANGED <<pubVars, verVars>>

Init == PubInit /\ VerInit /\ CliInit

NextPublisher ==
    \/ AddEntry
    \/ create_dags_list
    \/ UploadOk
    \/ UploadFail
    \/ UploadsDone

SpecPublisher == Init /\ [][NextPublisher]_vars

NextVerifier ==
    \/ BuildOk
    \/ BuildFail
    \/ Describe
    \/ IdentityToken
    \/ GetRoot
    \/ GetMnt
    \/ CheckBody
    \/ Teardown

SpecVerifier == Init /\ [][NextVerifier]_vars

NextCli == gcloud_cli_try

SpecCli == Init /\ [][NextCli]_vars

\* ---------------------------------------------------------------- publisher claims

EndsWith(s, suffix) ==
    Len(suffix) <= Len(s) /\ SubSeq(s, Len(s) - Len(suffix) + 1, Len(s)) = suffix

RECURSIVE Basename(_)
Basename(p) ==
    IF \A i \in DOMAIN p : p[i] # SLASH THEN p
    ELSE Basename(Tail(p))

RECURSIVE RelPath(_)
RelPath(path) ==
    IF Len(path) = 1 THEN path[1]
    ELSE path[1] \o <<SLASH>> \o RelPath(Tail(path))

IsExcludedName(n) == n = N_init \/ EndsWith(n, N_test)

Listed == ppc # "setup"

BucketKeys == {o.key : o \in bucket}

SrcTop(name, kind) == [path |-> <<name>>, kind |-> kind]

SrcFiles == {e \in srcTree : e.kind = "file"}

\* C2 as stated: the list holds N-M paths, N the files of the source directory
\* at any depth and of any extension, M those with an excluded name.
C2_Original ==
    Listed =>
        Len(dags) = Cardinality(SrcFiles)
                    - Cardinality({e \in SrcFiles : IsExcludedName(e.path[Len(e.path)])})

ListedChildren ==
    {e \in srcTree : /\ Len(e.path) = 1
                     /\ EndsWith(e.path[1], <<".", "p", "y">>)
                     /\ Head(e.path[1]) # "."
                     /\ ~IsExcludedName(e.path[1])}

\* C2 amended: the list holds exactly one staging path per direct child of the
\* source directory whose name ends in .py, does not start with a dot and
\* matches no exclusion pattern.
C2_Amended ==
    Listed =>
        /\ Len(dags) = Cardinality(ListedChildren)
        /\ {dags[i] : i \in DOMAIN dags}
              = {JoinDir(temp_dir, e.path[1]) : e \in ListedChildren}

C2_Witness ==
    /\ Listed
    /\ srcTree = {SrcTop(N_a_py, "file"), SrcTop(N_txt, "file"), SrcTop(N_sub, "dir"),
                  [path |-> <<N_sub, N_a_py>>, kind |-> "file"]}
    /\ Len(dags) = 1

\* C6: the key computed for each listed path is the path of its source entry
\* relative to the source directory, and holds nothing of the staging path.
C6_KeyIsRelativePath ==
    Listed =>
        /\ \A i \in DOMAIN dags :
              LET key == ObjectKey(dags[i], temp_dir)
              IN /\ \E e \in srcTree : /\ dags[i] = JoinDir(temp_dir, RelPath(e.path))
                                       /\ key = RelPath(e.path)
                 /\ ~Contains(key, temp_dir)
                 /\ ~IsPrefix(<<SLASH>>, key)
        /\ \A i \in DOMAIN uploaded :
              \E e \in srcTree : /\ dags[i] = JoinDir(temp_dir, RelPath(e.path))
                                /\ uploaded[i] = RelPath(e.path)

C6_Witness ==
    /\ temp_dir = <<"/", "t", "/", "t">>
    /\ Len(dags) = 2
    /\ Len(uploaded) = 2
    /\ N_testpy \in BucketKeys

KeysOf(list) == [i \in DOMAIN list |-> ObjectKey(list[i], temp_dir)]

\* C7: uploads happen one per file in list order, so the uploaded keys are
\* always a prefix of the keys of dags; a failed upload reaches the caller,
\* nothing is uploaded after it and what was written before it stays.
C7_FailureLeavesPrefix ==
    /\ [](/\ Len(uploaded) <= Len(dags)
          /\ uploaded = SubSeq(KeysOf(dags), 1, Len(uploaded))
          /\ BucketKeys = {uploaded[i] : i \in DOMAIN uploaded}
          /\ pubError => /\ ppc = "failed"
                         /\ Len(uploaded) = idx - 1
          /\ ppc = "done" => Len(uploaded) = Len(dags))
    /\ [][/\ bucket \subseteq bucket'
          /\ Len(uploaded') <= Len(uploaded) + 1
          /\ pubError => (pubError' /\ uploaded' = uploaded /\ bucket' = bucket)]_vars

C7_Witness ==
    /\ ppc = "failed"
    /\ pubError
    /\ Len(dags) = 3
    /\ Len(uploaded) = 1
    /\ Cardinality(bucket) = 1

\* ---------------------------------------------------------------- deployment test claims

Issued(c) == {i \in DOMAIN log : log[i].cmd = c}

Rank(e) ==
    CASE e.cmd = "builds submit" -> 1
      [] e.cmd = "services describe" -> 2
      [] e.cmd = "print-identity-token" -> 3
      [] e.cmd = "GET" /\ e.path = "" -> 4
      [] e.cmd = "GET" /\ e.path # "" -> 5
      [] e.cmd = "services delete" -> 6

BuildSucceeded == log # <<>> /\ log[1].cmd = "builds submit" /\ log[1].ok

\* C3: once the build has succeeded, the run ends with the delete command
\* issued exactly once, whichever step failed or none, and it is never issued
\* twice.
C3_TeardownOnEveryExit ==
    /\ Cardinality(Issued("services delete")) <= 1
    /\ (tpc = "finished" /\ BuildSucceeded)
          => Cardinality(Issued("services delete")) = 1

C3_Witness ==
    /\ tpc = "finished"
    /\ outcome = "failed"
    /\ rootStatus = 200
    /\ mntStatus = 204
    /\ Cardinality(Issued("services delete")) = 1

\* C8: the commands and requests are issued in the order build, describe,
\* identity token, root GET, mounted-path GET, delete; a GET has the resolved
\* URL and token; the mounted-path GET follows a root GET answered 200; the
\* delete is issued only when the test has its verdict and nothing follows it.
C8_LifecycleOrder ==
    /\ \A i, j \in DOMAIN log : i < j => Rank(log[i]) < Rank(log[j])
    /\ \A i \in Issued("GET") :
          /\ log[i].url \in Urls /\ log[i].bearer \in Tokens
          /\ \E j, k \in 1..(i - 1) :
                /\ log[j].cmd = "services describe" /\ log[j].ok
                /\ log[k].cmd = "print-identity-token" /\ log[k].ok
          /\ log[i].path # "" =>
                \E j \in 1..(i - 1) :
                   log[j].cmd = "GET" /\ log[j].path = "" /\ log[j].status = 200
    /\ \A i \in Issued("services delete") :
          /\ i = Len(log)
          /\ outcome # None
          /\ tpc = "finished"
          /\ log[1].cmd = "builds submit" /\ log[1].ok

C8_Witness ==
    /\ Len(log) = 6
    /\ log[6].cmd = "services delete"
    /\ outcome = "passed"

TestBodyRan == rootStatus # NoStatus

TestBodyOver == tpc \in {"teardown", "finished"}

\* C9: when the test body has run to its end, the verdict is passed exactly
\* when both GETs answered 200 and the decoded body of the second holds the
\* date token of the test's UTC clock; otherwise it is failed.
C9_PassIffAllChecks ==
    (TestBodyRan /\ TestBodyOver) =>
        /\ outcome \in {"passed", "failed"}
        /\ outcome = "passed" <=>
              /\ rootStatus = 200
              /\ mntStatus = 200
              /\ body.decodable
              /\ date # NoDate
              /\ Contains(body.text, DateToken(date))

C9_Witness ==
    /\ outcome = "failed"
    /\ rootStatus = 200
    /\ mntStatus = 200
    /\ body.decodable
    /\ body.text = <<"Mon", "-", "Nov", "-", "2", "-", "9">>
    /\ date = [a |-> "Mon", b |-> "Nov", d |-> 2, H |-> 9]

BuildFailed == log # <<>> /\ log[1].cmd = "builds submit" /\ ~log[1].ok

\* C10: when the build command fails it is run once, the run ends at once with
\* an error, and no describe, token, GET or delete is ever issued.
C10_BuildFailureStopsRun ==
    BuildFailed =>
        /\ log = <<Cmd("builds submit", FALSE)>>
        /\ tpc = "finished"
        /\ outcome = "error"
        /\ service_url = None /\ auth_token = None

C10_Witness == BuildFailed /\ tpc = "finished"

\* ---------------------------------------------------------------- gcloud_cli claims

CallOver == gpc \in {"returned", "raised"}

\* C4: the gcloud process fails twice and then exits 0 with JSON on stdout:
\* the call returns the parsed value and raises nothing.
C4_ThirdAttemptReturns ==
    (/\ Len(attempts) = 3
     /\ attempts[1].rc # 0
     /\ attempts[2].rc # 0
     /\ attempts[3].rc = 0
     /\ IsJson(attempts[3].stdout))
    => /\ gpc = "returned"
       /\ gRet = [set |-> TRUE,
                  value |-> SubSeq(attempts[3].stdout, 2, Len(attempts[3].stdout) - 1)]
       /\ gExc = NoExc

\* C5: the gcloud process is run at most 3 times per call; after 3 failed
\* runs the call is over with an exception that carries the stderr of the
\* third run.
C5_GivesUpWithLastStderr ==
    /\ Len(attempts) <= 3
    /\ tries = Len(attempts)
    /\ (Len(attempts) = 3 /\ \A i \in 1..3 : attempts[i].rc # 0)
          => /\ gpc = "raised"
             /\ gExc.type = "CalledProcessError"
             /\ gExc.stderr = attempts[3].stderr
    /\ gpc = "raised" => (Len(attempts) = 3 /\ gExc.stderr = attempts[3].stderr)

C5_Witness ==
    /\ gpc = "raised"
    /\ \A i \in 1..3 : attempts[i].rc # 0
    /\ attempts[1].stderr = "warn"
    /\ attempts[3].stderr = "boom"
    /\ gExc = [type |-> "CalledProcessError", stderr |-> "boom"]

====
